---- MODULE Spec2Model ----
(***************************************************************************)
(* Model of cookie_cutter.c: the crop region, the pointer/keyboard event   *)
(* handlers of the event loop, the preview texture and the export counter. *)
(*                                                                         *)
(* Image-space pointer coordinates are C floats in the program.  They are  *)
(* modelled as exact rationals n/d with d > 0.  For the images and         *)
(* renderer output sizes enumerated below the fitted scale is a dyadic     *)
(* rational (1.5, 2, 1.25, 1.5625, 37.5, 50), exact in a float, and every  *)
(* quotient (mx - ox) / s is either exact or at least 1/150 away from the  *)
(* nearest integer and half-integer, far more than a float rounding error, *)
(* so each comparison and truncation gives the result the floats give.     *)
(***************************************************************************)
EXTENDS Integers, Sequences, FiniteSets, TLC

\* ------------------------------------------------------------------ bounds
\* Number of input events handled in one run of the model.
MaxEvents == 3
ProbesPerAxis == 200

\* ------------------------------------------------------- program constants
DEFAULT_SQUARE_SIZE == 256
MIN_SQUARE_SIZE == 32
WINDOW_W == 1280
WINDOW_H == 900
GROW_STEP == 16
MAX_SQUARE_SIZE == 2048
HANDLE_GRAB == 24

\* Loaded images <<orig_w, orig_h>> of the main specification.
Images == { <<800, 600>>, <<1024, 256>>, <<24, 24>> }

\* Image sides of the start-up specification.
ImageSides == { 1, 20, 31, 32, 100, 255, 256, 257, 300, 600, 800 }

\* Renderer output sizes <<rw, rh>>: the initial window and an enlarged one.
OutputSizes == { <<WINDOW_W, WINDOW_H>>, <<1600, 1200>> }

\* Display-space pointer positions <<mx, my>> delivered with pointer events.
Points == { <<10, 10>>, <<508, 318>>, <<832, 642>>, <<940, 750>>, <<1270, 890>> }

Buttons == { "left", "right" }

\* What can happen inside save_crop: the PNG is written, IMG_SavePNG fails,
\* or the surface cannot be created.
SaveOutcomes == { "saved", "failed", "nosurface" }

\* The images of the small-image specification: a single pixel, and two
\* images with a side just above and a side below MIN_SQUARE_SIZE.
SmallImages == { << 1, 1 >>, << 40, 20 >>, << 64, 36 >> }

\* The images of the grow specification, and the display points of its
\* pointer events: with 4096x4096 in the 1280x900 window the scale is 225/1024
\* and the offsets are (190, 0); (668, 478) is on the resize handle of the
\* initial region, the others are further down the diagonal and in the middle.
GrowImages == { << 4096, 4096 >>, << 2560, 2560 >> }
GrowPoints ==
    { << 640, 450 >>, << 668, 478 >>, << 1056, 866 >>, << 1060, 870 >>,
      << 1062, 872 >> }

\* The images and renderer output sizes of the transform specification.
TransformImages ==
    { << 800, 600 >>, << 1000, 700 >>, << 333, 777 >>, << 1920, 1080 >>,
      << 3000, 2000 >>, << 24, 24 >>, << 7, 3 >> }
DrawableSizes ==
    { << WINDOW_W, WINDOW_H >>, << 1600, 1200 >>, << 640, 480 >>,
      << 101, 57 >> }

\* The k-th coordinate probed on an axis of n pixels: ProbesPerAxis + 1 of
\* them are evenly spread from 0 to n - 1.
Coord(n, k) == (k * (n - 1)) \div ProbesPerAxis

VARIABLES
    pc,             \* "start" before the image is loaded, "loop", "exit", "done"
    orig_w, orig_h, \* size of the loaded image
    rw, rh,         \* current renderer output size
    crop,           \* CropRegion [x, y, w, h]
    dragging, resizing,
    drag_offset_x, drag_offset_y,
    running,
    crop_changed,
    preview_tex,    \* [present, src]: the texture and the region it was cut from
    cnt,            \* static int cnt of the S handler
    fname,          \* last file name formatted by the S handler
    nsaves,         \* history: number of S key-downs handled
    save_result,    \* history: "none", or how the last save_crop call ended
    regenerated,    \* history: "none", or what the last preview update did
    nev,            \* history: number of events handled
    held,           \* the resources acquired and not yet released
    misreleased,    \* history: resources released while not held
    exit_code,      \* the value main returned; -1 while it has not returned
    fault,          \* "pending", or how the setup ended (StartupOutcomes)
    probe           \* history: the last display point sent through both
                    \* transforms, and where it came back

vars == << pc, orig_w, orig_h, rw, rh, crop, dragging, resizing,
           drag_offset_x, drag_offset_y, running, crop_changed, preview_tex,
           cnt, fname, nsaves, save_result, regenerated, nev,
           held, misreleased, exit_code, fault, probe >>

\* The resource bookkeeping and the probe, which no event handler touches.
res == << held, misreleased, exit_code, fault, probe >>

NoProbe == [done |-> FALSE, px |-> 0, py |-> 0, qx |-> 0, qy |-> 0]

\* ------------------------------------------------------------ C arithmetic
Abs(a) == IF a < 0 THEN -a ELSE a
Min(a, b) == IF a < b THEN a ELSE b
Max(a, b) == IF a > b THEN a ELSE b

\* C integer division and float-to-int conversion: truncation toward zero.
CDiv(a, b) == IF a >= 0 THEN a \div b ELSE -((-a) \div b)

Region(x, y, w, h) == [x |-> x, y |-> y, w |-> w, h |-> h]
NoRegion == Region(0, 0, 0, 0)

\* ------------------------------------------------------- initial crop region
\* Mutant: the width and height are not cut down to a smaller image.
InitialCrop_Unclamped(W, H) ==
    LET x0 == CDiv(W - DEFAULT_SQUARE_SIZE, 2)
        y0 == CDiv(H - DEFAULT_SQUARE_SIZE, 2)
    IN  Region(IF x0 < 0 THEN 0 ELSE x0, IF y0 < 0 THEN 0 ELSE y0,
               DEFAULT_SQUARE_SIZE, DEFAULT_SQUARE_SIZE)

InitialCrop(W, H) ==
    LET x0 == CDiv(W - DEFAULT_SQUARE_SIZE, 2)
        y0 == CDiv(H - DEFAULT_SQUARE_SIZE, 2)
        x1 == IF x0 < 0 THEN 0 ELSE x0
        y1 == IF y0 < 0 THEN 0 ELSE y0
        w1 == IF x1 + DEFAULT_SQUARE_SIZE > W THEN W - x1 ELSE DEFAULT_SQUARE_SIZE
        h1 == IF y1 + DEFAULT_SQUARE_SIZE > H THEN H - y1 ELSE DEFAULT_SQUARE_SIZE
    IN  Region(x1, y1, w1, h1)

\* ------------------------------------------------------ coordinate transform
\* s = fmin((float)rw / orig_w, (float)rh / orig_h) as a fraction [n, d].
Scale(W, H) ==
    IF rw * H <= rh * W THEN [n |-> rw, d |-> W] ELSE [n |-> rh, d |-> H]

\* (int)(orig_w * s)
ScaledW(W, H) == LET s == Scale(W, H) IN CDiv(W * s.n, s.d)
ScaledH(W, H) == LET s == Scale(W, H) IN CDiv(H * s.n, s.d)

OffsetX(W, H) == CDiv(rw - ScaledW(W, H), 2)
OffsetY(W, H) == CDiv(rh - ScaledH(W, H), 2)

\* ix = (mx - ox) / s, iy = (my - oy) / s as fractions over the common
\* denominator d = numerator of the scale.
ToImage(p) ==
    LET s == Scale(orig_w, orig_h)
    IN  [xn |-> (p[1] - OffsetX(orig_w, orig_h)) * s.d,
         yn |-> (p[2] - OffsetY(orig_w, orig_h)) * s.d,
         d  |-> s.n]

\* (int)(v + 0.5f) for the fraction v = n / d
RoundHalf(n, d) == CDiv(2 * n + d, 2 * d)

\* ------------------------------------------------------------- key handlers
\* Each operator gives the region after the key and whether the handler set
\* crop_changed.
Same(c) == [c |-> c, ch |-> FALSE]
Set(c) == [c |-> c, ch |-> TRUE]

LeftKey(c, shift, ctrl) ==
    IF shift THEN
        IF c.w > MIN_SQUARE_SIZE THEN Set([c EXCEPT !.w = c.w - 1]) ELSE Same(c)
    ELSE IF ctrl THEN
        IF c.x >= c.w THEN Set([c EXCEPT !.x = c.x - c.w]) ELSE Same(c)
    ELSE
        IF c.x > 0 THEN Set([c EXCEPT !.x = c.x - 1]) ELSE Same(c)

\* Mutant: Ctrl is tested before Shift.
RightKey_CtrlFirst(c, shift, ctrl) ==
    IF ctrl THEN
        IF c.x + c.w + c.w <= orig_w
        THEN Set([c EXCEPT !.x = c.x + c.w]) ELSE Same(c)
    ELSE IF shift THEN
        IF c.w < orig_w /\ c.x + c.w < orig_w
        THEN Set([c EXCEPT !.w = c.w + 1]) ELSE Same(c)
    ELSE
        IF c.x + c.w < orig_w THEN Set([c EXCEPT !.x = c.x + 1]) ELSE Same(c)

RightKey(c, shift, ctrl) ==
    IF shift THEN
        IF c.w < orig_w /\ c.x + c.w < orig_w
        THEN Set([c EXCEPT !.w = c.w + 1]) ELSE Same(c)
    ELSE IF ctrl THEN
        IF c.x + c.w + c.w <= orig_w
        THEN Set([c EXCEPT !.x = c.x + c.w]) ELSE Same(c)
    ELSE
        IF c.x + c.w < orig_w THEN Set([c EXCEPT !.x = c.x + 1]) ELSE Same(c)

UpKey(c, shift, ctrl) ==
    IF shift THEN
        IF c.h > MIN_SQUARE_SIZE THEN Set([c EXCEPT !.h = c.h - 1]) ELSE Same(c)
    ELSE IF ctrl THEN
        IF c.y >= c.h THEN Set([c EXCEPT !.y = c.y - c.h]) ELSE Same(c)
    ELSE
        IF c.y > 0 THEN Set([c EXCEPT !.y = c.y - 1]) ELSE Same(c)

DownKey(c, shift, ctrl) ==
    IF shift THEN
        IF c.h < orig_h /\ c.y + c.h < orig_h
        THEN Set([c EXCEPT !.h = c.h + 1]) ELSE Same(c)
    ELSE IF ctrl THEN
        IF c.y + c.h + c.h <= orig_h
        THEN Set([c EXCEPT !.y = c.y + c.h]) ELSE Same(c)
    ELSE
        IF c.y + c.h < orig_h THEN Set([c EXCEPT !.y = c.y + 1]) ELSE Same(c)

\* + / = / keypad +: the re-centering of x and y is commented out in the source.
PlusKey(c) ==
    IF c.w < MAX_SQUARE_SIZE /\ c.h < MAX_SQUARE_SIZE
    THEN Set([c EXCEPT !.w = c.w + GROW_STEP, !.h = c.h + GROW_STEP])
    ELSE Same(c)

\* Mutant: the shrink is not guarded by the minimum size.
MinusKey_Unguarded(c) ==
    Set([c EXCEPT !.w = c.w - GROW_STEP, !.h = c.h - GROW_STEP])

\* - / keypad -
MinusKey(c) ==
    IF c.w > MIN_SQUARE_SIZE /\ c.h > MIN_SQUARE_SIZE
    THEN Set([c EXCEPT !.w = c.w - GROW_STEP, !.h = c.h - GROW_STEP])
    ELSE Same(c)

\* ------------------------------------------------------------ file name
\* Decimal digit characters of n >= 0, most significant first.
RECURSIVE Digits(_)
Digits(n) ==
    LET ch(k) == << "0", "1", "2", "3", "4", "5", "6", "7", "8", "9" >>[k + 1]
    IN  IF n < 10 THEN << ch(n) >> ELSE Append(Digits(n \div 10), ch(n % 10))

\* %d
FmtD(n) == IF n < 0 THEN << "-" >> \o Digits(-n) ELSE Digits(n)

\* %03d: zero-padded to a minimum width of 3, the sign counted in the width.
RECURSIVE ZeroPad(_, _)
ZeroPad(ds, width) == IF Len(ds) >= width THEN ds ELSE ZeroPad(<< "0" >> \o ds, width)

Fmt03D(n) ==
    IF n < 0 THEN << "-" >> \o ZeroPad(Digits(-n), 2) ELSE ZeroPad(Digits(n), 3)

\* snprintf(fname, ..., "crop_%03d_%dx%d.png", cnt, crop.w, crop.h)
FileName(k, w, h) ==
    << "crop_" >> \o Fmt03D(k) \o << "_" >> \o FmtD(w) \o << "x" >> \o FmtD(h)
        \o << ".png" >>

\* --------------------------------------------------------- pointer handlers
\* SDL_MOUSEBUTTONDOWN with the left button at display point p: the new
\* [dragging, resizing, ox, oy].
ButtonDown(c, p) ==
    LET i == ToImage(p)
        d == i.d
        inside == /\ i.xn >= c.x * d /\ i.xn <= (c.x + c.w) * d
                  /\ i.yn >= c.y * d /\ i.yn <= (c.y + c.h) * d
        dxn == Abs(i.xn - (c.x + c.w) * d)
        dyn == Abs(i.yn - (c.y + c.h) * d)
    IN  IF ~inside THEN
            [dragging |-> dragging, resizing |-> resizing,
             ox |-> drag_offset_x, oy |-> drag_offset_y]
        ELSE IF dxn < HANDLE_GRAB * d /\ dyn < HANDLE_GRAB * d THEN
            [dragging |-> dragging, resizing |-> TRUE,
             ox |-> CDiv((c.x + c.w) * d - i.xn, d),
             oy |-> CDiv((c.y + c.h) * d - i.yn, d)]
        ELSE
            [dragging |-> TRUE, resizing |-> resizing,
             ox |-> CDiv(i.xn - c.x * d, d),
             oy |-> CDiv(i.yn - c.y * d, d)]

\* SDL_MOUSEMOTION while dragging: move the top-left, clamp into the image.
DragTo(c, p) ==
    LET i  == ToImage(p)
        x0 == RoundHalf(i.xn - drag_offset_x * i.d, i.d)
        y0 == RoundHalf(i.yn - drag_offset_y * i.d, i.d)
        x1 == IF x0 < 0 THEN 0 ELSE x0
        y1 == IF y0 < 0 THEN 0 ELSE y0
        x2 == IF x1 + c.w > orig_w THEN orig_w - c.w ELSE x1
        y2 == IF y1 + c.h > orig_h THEN orig_h - c.h ELSE y1
    IN  [c EXCEPT !.x = x2, !.y = y2]

\* Mutant: the force-square line is left out (free aspect ratio).
ResizeTo_FreeAspect(c, p) ==
    LET i   == ToImage(p)
        brx == RoundHalf(i.xn + drag_offset_x * i.d, i.d)
        bry == RoundHalf(i.yn + drag_offset_y * i.d, i.d)
        nw  == Min(Max(brx - c.x, MIN_SQUARE_SIZE), orig_w - c.x)
        nh  == Min(Max(bry - c.y, MIN_SQUARE_SIZE), orig_h - c.y)
    IN  [c EXCEPT !.w = nw, !.h = nh]

\* SDL_MOUSEMOTION while resizing: move the bottom-right, clamp, force square.
ResizeTo(c, p) ==
    LET i   == ToImage(p)
        brx == RoundHalf(i.xn + drag_offset_x * i.d, i.d)
        bry == RoundHalf(i.yn + drag_offset_y * i.d, i.d)
        nw0 == Max(brx - c.x, MIN_SQUARE_SIZE)
        nh0 == Max(bry - c.y, MIN_SQUARE_SIZE)
        nw1 == Min(nw0, orig_w - c.x)
        nh1 == Min(nh0, orig_h - c.y)
        sq  == Min(nw1, nh1)
    IN  [c EXCEPT !.w = sq, !.h = sq]

\* ------------------------------------------------- single-precision floats
\* A float is [sg, m, e] with value sg * m * 2^e, sg in {1, -1}, and either
\* m = 0 or 2^23 <= m < 2^24 (24 significant bits, round to nearest even).
\* The values that occur are far from the exponent limits.
FZero == [sg |-> 1, m |-> 0, e |-> 0]

RECURSIVE Normalise(_, _)
Normalise(m, e) ==
    IF m < 2^23 THEN Normalise(2 * m, e - 1) ELSE [m |-> m, e |-> e]

\* (float)k for an int k with |k| < 2^24: exact.
IntToF(k) ==
    IF k = 0 THEN FZero
    ELSE LET n == Normalise(Abs(k), 0)
         IN  [sg |-> IF k < 0 THEN -1 ELSE 1, m |-> n.m, e |-> n.e]

\* m with the remainder r of denominator d rounded in (ties to even).
RoundEven(m, e, r, d) ==
    LET up == 2 * r > d \/ (2 * r = d /\ m % 2 = 1)
        m1 == IF up THEN m + 1 ELSE m
    IN  IF m1 = 2^24 THEN [m |-> 2^23, e |-> e + 1]
        ELSE [m |-> m1, e |-> e]

\* n more quotient bits of the long division by b, from quotient q and
\* remainder r < b.
RECURSIVE LongDiv(_, _, _, _)
LongDiv(q, r, b, n) ==
    IF n = 0 THEN [q |-> q, r |-> r]
    ELSE IF 2 * r >= b THEN LongDiv(2 * q + 1, 2 * r - b, b, n - 1)
         ELSE LongDiv(2 * q, 2 * r, b, n - 1)

\* x / y, y # 0
FDiv(x, y) ==
    IF x.m = 0 THEN FZero
    ELSE LET n == IF x.m >= y.m THEN 23 ELSE 24
             d == LongDiv(x.m \div y.m, x.m % y.m, y.m, n)
             z == RoundEven(d.q, x.e - y.e - n, d.r, y.m)
         IN  [sg |-> x.sg * y.sg, m |-> z.m, e |-> z.e]

\* x * y: the 48-bit product of the mantissas is hi * 2^24 + lo.
FMul(x, y) ==
    IF x.m = 0 \/ y.m = 0 THEN FZero
    ELSE LET a1 == x.m \div 4096
             a0 == x.m % 4096
             b1 == y.m \div 4096
             b0 == y.m % 4096
             mid == a1 * b0 + a0 * b1
             low == (mid % 4096) * 4096 + a0 * b0
             hi == a1 * b1 + (mid \div 4096) + (low \div 2^24)
             lo == low % 2^24
             z == IF hi >= 2^23
                  THEN RoundEven(hi, x.e + y.e + 24, lo, 2^24)
                  ELSE RoundEven(2 * hi + (lo \div 2^23),
                                 x.e + y.e + 23, lo % 2^23, 2^23)
         IN  [sg |-> x.sg * y.sg, m |-> z.m, e |-> z.e]

\* fmin of two positive floats
FMin(x, y) ==
    IF x.e < y.e \/ (x.e = y.e /\ x.m <= y.m) THEN x ELSE y

\* (int)x: the fraction is dropped.
FToInt(x) ==
    IF x.m = 0 \/ x.e <= -24 THEN 0
    ELSE IF x.e >= 0 THEN x.sg * x.m * 2^(x.e)
    ELSE x.sg * (x.m \div 2^(-x.e))

\* float s = fmin((float)w / W, (float)h / H) for output size w x h and
\* image size W x H.
FScale(w, h, W, H) ==
    FMin(FDiv(IntToF(w), IntToF(W)), FDiv(IntToF(h), IntToF(H)))

\* int ox = (rw - (int)(orig_w * s)) / 2, and the same for oy
FOffset(out, side, s) == CDiv(out - FToInt(FMul(IntToF(side), s)), 2)

\* Mutant: the offset is added instead of subtracted.
ToImageF_OffsetAdded(m, o, s) == FDiv(IntToF(m + o), s)

\* The pointer transform of one coordinate: float ix = (mx - ox) / s
ToImageF(m, o, s) == FDiv(IntToF(m - o), s)

\* The render transform of one coordinate: (int)(i * s) + ox
ToDisplayF(i, o, s) == FToInt(FMul(i, s)) + o

\* ------------------------------------------------------------------ actions
InitRest ==
    /\ pc = "start"
    /\ rw = WINDOW_W /\ rh = WINDOW_H
    /\ crop = NoRegion
    /\ dragging = FALSE /\ resizing = FALSE
    /\ drag_offset_x = 0 /\ drag_offset_y = 0
    /\ running = TRUE
    /\ crop_changed = FALSE
    /\ preview_tex = [present |-> FALSE, src |-> NoRegion]
    /\ cnt = 1
    /\ fname = << >>
    /\ nsaves = 0
    /\ save_result = "none"
    /\ regenerated = "none"
    /\ nev = 0
    /\ held = {}
    /\ misreleased = {}
    /\ exit_code = -1
    /\ fault = "pending"
    /\ probe = NoProbe

Init ==
    /\ \E im \in Images : orig_w = im[1] /\ orig_h = im[2]
    /\ InitRest

\* The start-up specification: any image with sides in ImageSides is loaded.
InitStartup ==
    /\ orig_w \in ImageSides /\ orig_h \in ImageSides
    /\ InitRest

\* How the setup of main can end: the argument count is wrong, one of the
\* three initialisations, the window, the renderer, the image load or the
\* image texture fails, or everything succeeds.
StartupOutcomes ==
    { "argc", "sdl_init", "img_init", "ttf_init", "window", "renderer",
      "image", "texture", "ok" }

\* The resources main holds when the setup ends with the given outcome;
\* font tells whether one of the three TTF_OpenFont calls succeeded.
Acquired(outcome, font) ==
    LET fnt == IF font THEN { "font" } ELSE {}
    IN  CASE outcome \in { "argc", "sdl_init" } -> {}
          [] outcome = "img_init" -> { "sdl" }
          [] outcome = "ttf_init" -> { "sdl", "img" }
          [] outcome = "window"   -> { "sdl", "img", "ttf" }
          [] outcome = "renderer" -> { "sdl", "img", "ttf", "window" }
          [] outcome = "image"    ->
                 { "sdl", "img", "ttf", "window", "renderer" } \cup fnt
          [] outcome = "texture"  ->
                 { "sdl", "img", "ttf", "window", "renderer", "surface" }
                     \cup fnt
          [] OTHER ->
                 { "sdl", "img", "ttf", "window", "renderer", "surface",
                   "texture" } \cup fnt

\* The resources the release calls from the given label down to the return
\* are applied to, h being held: "return" is the return 1 of the first two
\* checks, "end" is the fall-through after the loop.
Released(label, h) ==
    LET fnt == IF "font" \in h THEN { "font" } ELSE {}
    IN  CASE label = "return"          -> {}
          [] label = "cleanup"         -> { "ttf", "img", "sdl" }
          [] label = "cleanup_font"    ->
                 { "renderer", "window", "ttf", "img", "sdl" } \cup fnt
          [] label = "cleanup_surface" ->
                 { "surface", "renderer", "window", "ttf", "img", "sdl" }
                     \cup fnt
          [] OTHER ->
                 { "texture", "surface", "renderer", "window", "ttf", "img",
                   "sdl" } \cup fnt

\* The label a failed setup jumps to.
FailLabel(outcome) ==
    CASE outcome \in { "argc", "sdl_init", "img_init", "ttf_init" } -> "return"
      [] outcome \in { "window", "renderer" } -> "cleanup"
      [] outcome = "image" -> "cleanup_font"
      [] OTHER -> "cleanup_surface"

\* The setup of main.  When it succeeds the image is loaded and the crop
\* region and loop flags are initialised; when it fails main returns: 1 from
\* the first two checks, 0 through the cleanup labels.
Startup(outcome, font) ==
    /\ pc = "start"
    /\ fault' = outcome
    /\ IF outcome = "ok"
       THEN /\ pc' = "loop"
            /\ crop' = InitialCrop(orig_w, orig_h)
            /\ held' = Acquired(outcome, font)
            /\ UNCHANGED << misreleased, exit_code >>
       ELSE LET h == Acquired(outcome, font)
                r == Released(FailLabel(outcome), h)
            IN  /\ pc' = "done"
                /\ held' = h \ r
                /\ misreleased' = misreleased \cup (r \ h)
                /\ exit_code' = IF FailLabel(outcome) = "return" THEN 1 ELSE 0
                /\ UNCHANGED crop
    /\ UNCHANGED << orig_w, orig_h, rw, rh, dragging, resizing, drag_offset_x,
                    drag_offset_y, running, crop_changed, preview_tex, cnt,
                    fname, nsaves, save_result, regenerated, nev, probe >>

\* An event is polled inside the drain loop of the current frame.
Polled ==
    /\ pc = "loop"
    /\ nev < MaxEvents
    /\ nev' = nev + 1
    /\ UNCHANGED res

\* The user resizes the window; the event itself has no case in the switch.
WindowResized ==
    /\ Polled
    /\ \E o \in OutputSizes : << rw, rh >> # o /\ rw' = o[1] /\ rh' = o[2]
    /\ UNCHANGED << pc, orig_w, orig_h, crop, dragging, resizing, drag_offset_x,
                    drag_offset_y, running, crop_changed, preview_tex, cnt,
                    fname, nsaves, save_result, regenerated >>

\* SDL_QUIT, and SDLK_q / SDLK_ESCAPE
Quit ==
    /\ Polled
    /\ running' = FALSE
    /\ UNCHANGED << pc, orig_w, orig_h, rw, rh, crop, dragging, resizing,
                    drag_offset_x, drag_offset_y, crop_changed, preview_tex,
                    cnt, fname, nsaves, save_result, regenerated >>

\* save_crop: how the call ends when surface creation and PNG encoding turn
\* out as `outcome`.
SaveCrop(c, outcome) == IF c.w <= 0 \/ c.h <= 0 THEN "skipped" ELSE outcome

\* Mutant: the counter is incremented before the name is formatted (++cnt).
KeySave_PreIncrement(outcome) ==
    /\ Polled
    /\ fname' = FileName(cnt + 1, crop.w, crop.h)
    /\ cnt' = cnt + 1
    /\ nsaves' = nsaves + 1
    /\ save_result' = SaveCrop(crop, outcome)
    /\ UNCHANGED << pc, orig_w, orig_h, rw, rh, crop, dragging, resizing,
                    drag_offset_x, drag_offset_y, running, crop_changed,
                    preview_tex, regenerated >>

\* Mutant: the S handler marks the region as changed.
KeySave_MarksChanged(outcome) ==
    /\ Polled
    /\ fname' = FileName(cnt, crop.w, crop.h)
    /\ cnt' = cnt + 1
    /\ nsaves' = nsaves + 1
    /\ save_result' = SaveCrop(crop, outcome)
    /\ crop_changed' = TRUE
    /\ UNCHANGED << pc, orig_w, orig_h, rw, rh, crop, dragging, resizing,
                    drag_offset_x, drag_offset_y, running, preview_tex,
                    regenerated >>

\* SDLK_s: format the name from cnt++ and the region's size, call save_crop.
KeySave(outcome) ==
    /\ Polled
    /\ fname' = FileName(cnt, crop.w, crop.h)
    /\ cnt' = cnt + 1
    /\ nsaves' = nsaves + 1
    /\ save_result' = SaveCrop(crop, outcome)
    /\ UNCHANGED << pc, orig_w, orig_h, rw, rh, crop, dragging, resizing,
                    drag_offset_x, drag_offset_y, running, crop_changed,
                    preview_tex, regenerated >>

\* A key handler that may change the region: r is its [c, ch] result.
KeyApply(r) ==
    /\ Polled
    /\ crop' = r.c
    /\ crop_changed' = (crop_changed \/ r.ch)
    /\ UNCHANGED << pc, orig_w, orig_h, rw, rh, dragging, resizing,
                    drag_offset_x, drag_offset_y, running, preview_tex, cnt,
                    fname, nsaves, save_result, regenerated >>

KeyLeft(shift, ctrl) == KeyApply(LeftKey(crop, shift, ctrl))
KeyRight(shift, ctrl) == KeyApply(RightKey(crop, shift, ctrl))
KeyUp(shift, ctrl) == KeyApply(UpKey(crop, shift, ctrl))
KeyDown(shift, ctrl) == KeyApply(DownKey(crop, shift, ctrl))
KeyPlus == KeyApply(PlusKey(crop))
KeyMinus == KeyApply(MinusKey(crop))

\* SDL_MOUSEBUTTONDOWN
MouseButtonDown(button, p) ==
    /\ Polled
    /\ LET r == IF button = "left" THEN ButtonDown(crop, p)
                ELSE [dragging |-> dragging, resizing |-> resizing,
                      ox |-> drag_offset_x, oy |-> drag_offset_y]
       IN  /\ dragging' = r.dragging
           /\ resizing' = r.resizing
           /\ drag_offset_x' = r.ox
           /\ drag_offset_y' = r.oy
    /\ UNCHANGED << pc, orig_w, orig_h, rw, rh, crop, running, crop_changed,
                    preview_tex, cnt, fname, nsaves, save_result, regenerated >>

\* Mutant: the button-up clears the dragging flag only.
MouseButtonUp_DraggingOnly(button) ==
    /\ Polled
    /\ dragging' = IF button = "left" THEN FALSE ELSE dragging
    /\ UNCHANGED << pc, orig_w, orig_h, rw, rh, crop, resizing, drag_offset_x,
                    drag_offset_y, running, crop_changed, preview_tex, cnt,
                    fname, nsaves, save_result, regenerated >>

\* SDL_MOUSEBUTTONUP
MouseButtonUp(button) ==
    /\ Polled
    /\ dragging' = IF button = "left" THEN FALSE ELSE dragging
    /\ resizing' = IF button = "left" THEN FALSE ELSE resizing
    /\ UNCHANGED << pc, orig_w, orig_h, rw, rh, crop, drag_offset_x,
                    drag_offset_y, running, crop_changed, preview_tex, cnt,
                    fname, nsaves, save_result, regenerated >>

\* SDL_MOUSEMOTION
MouseMotion(p) ==
    /\ Polled
    /\ crop' = IF dragging THEN DragTo(crop, p)
               ELSE IF resizing THEN ResizeTo(crop, p)
               ELSE crop
    /\ crop_changed' = (crop_changed \/ dragging \/ resizing)
    /\ UNCHANGED << pc, orig_w, orig_h, rw, rh, dragging, resizing,
                    drag_offset_x, drag_offset_y, running, preview_tex, cnt,
                    fname, nsaves, save_result, regenerated >>

\* Mutant: the preview is cut again in every frame.
UpdatePreview_EveryFrame(ok) ==
    [tex |-> IF crop.w > 0 /\ crop.h > 0 /\ ok
             THEN [present |-> TRUE, src |-> crop]
             ELSE [present |-> FALSE, src |-> NoRegion],
     did |-> IF preview_tex.present THEN "replaced" ELSE "created"]

\* Mutant: the changed flag is ignored; the preview is cut only when none
\* is held.
UpdatePreview_OnlyWhenMissing(ok) ==
    IF ~preview_tex.present
    THEN [tex |-> IF crop.w > 0 /\ crop.h > 0 /\ ok
                  THEN [present |-> TRUE, src |-> crop]
                  ELSE [present |-> FALSE, src |-> NoRegion],
          did |-> "created"]
    ELSE [tex |-> preview_tex, did |-> "kept"]

\* The preview update of one frame: ok tells whether the surface and the
\* texture could be created.  Gives the texture held afterwards and what was
\* done: "kept" (branch not taken), "replaced" (the held texture destroyed,
\* a new one attempted) or "created" (none held, a new one attempted).
UpdatePreview(ok) ==
    IF crop_changed \/ ~preview_tex.present
    THEN [tex |-> IF crop.w > 0 /\ crop.h > 0 /\ ok
                  THEN [present |-> TRUE, src |-> crop]
                  ELSE [present |-> FALSE, src |-> NoRegion],
          did |-> IF preview_tex.present THEN "replaced" ELSE "created"]
    ELSE [tex |-> preview_tex, did |-> "kept"]

\* The event queue is empty: update the preview and render; then start the
\* next frame (crop_changed reset) or, when running is false, leave the loop.
Frame(ok) ==
    /\ pc = "loop"
    /\ LET r == UpdatePreview(ok)
       IN  /\ preview_tex' = r.tex
           /\ regenerated' = r.did
    /\ pc' = IF running THEN "loop" ELSE "exit"
    /\ crop_changed' = FALSE
    /\ UNCHANGED << orig_w, orig_h, rw, rh, crop, dragging, resizing,
                    drag_offset_x, drag_offset_y, running, cnt, fname, nsaves,
                    save_result, nev, held, misreleased, exit_code, fault,
                    probe >>

\* After the loop: the preview texture is destroyed if one is held, then
\* everything from the image texture down is released and main returns 0.
Cleanup ==
    /\ pc = "exit"
    /\ pc' = "done"
    /\ preview_tex' = [present |-> FALSE, src |-> NoRegion]
    /\ LET r == Released("end", held)
       IN  /\ held' = held \ r
           /\ misreleased' = misreleased \cup (r \ held)
    /\ exit_code' = 0
    /\ UNCHANGED << fault, probe >>
    /\ UNCHANGED << orig_w, orig_h, rw, rh, crop, dragging, resizing,
                    drag_offset_x, drag_offset_y, running, crop_changed, cnt,
                    fname, nsaves, save_result, regenerated, nev >>

\* The interaction specification runs with the font loaded: the font feeds
\* the text overlay only, and no handler reads it.
Next ==
    \/ \E o \in StartupOutcomes : Startup(o, TRUE)
    \/ WindowResized
    \/ Quit
    \/ \E outcome \in SaveOutcomes : KeySave(outcome)
    \/ \E shift, ctrl \in BOOLEAN : KeyLeft(shift, ctrl)
    \/ \E shift, ctrl \in BOOLEAN : KeyRight(shift, ctrl)
    \/ \E shift, ctrl \in BOOLEAN : KeyUp(shift, ctrl)
    \/ \E shift, ctrl \in BOOLEAN : KeyDown(shift, ctrl)
    \/ KeyPlus
    \/ KeyMinus
    \/ \E b \in Buttons, p \in Points : MouseButtonDown(b, p)
    \/ \E b \in Buttons : MouseButtonUp(b)
    \/ \E p \in Points : MouseMotion(p)
    \/ \E ok \in BOOLEAN : Frame(ok)
    \/ Cleanup

Spec == Init /\ [][Next]_vars

StartupStep == \E o \in StartupOutcomes, font \in BOOLEAN : Startup(o, font)

SpecStartup == InitStartup /\ [][StartupStep]_vars

\* The life cycle of the process: setup with every outcome, with and without
\* a font, the events that do not touch the region, frames and the release.
NextLifecycle ==
    \/ StartupStep
    \/ WindowResized
    \/ Quit
    \/ \E outcome \in SaveOutcomes : KeySave(outcome)
    \/ \E ok \in BOOLEAN : Frame(ok)
    \/ Cleanup

SpecLifecycle == Init /\ [][NextLifecycle]_vars

\* The grow specification: a large image, on which the pointer can stretch
\* the region up to the maximum size within a few events.
InitGrow ==
    /\ \E im \in GrowImages : orig_w = im[1] /\ orig_h = im[2]
    /\ InitRest

NextGrow ==
    \/ Startup("ok", TRUE)
    \/ \E b \in Buttons, p \in GrowPoints : MouseButtonDown(b, p)
    \/ \E b \in Buttons : MouseButtonUp(b)
    \/ \E p \in GrowPoints : MouseMotion(p)
    \/ \E shift, ctrl \in BOOLEAN : KeyRight(shift, ctrl)
    \/ KeyPlus
    \/ KeyMinus

SpecGrow == InitGrow /\ [][NextGrow]_vars

\* The small-image specification: the event loop on the images of
\* SmallImages.
InitSmall ==
    /\ \E im \in SmallImages : orig_w = im[1] /\ orig_h = im[2]
    /\ InitRest

SpecSmall == InitSmall /\ [][Next]_vars

\* The transform specification: the loop runs on any image of
\* TransformImages with any output size of DrawableSizes.
InitTransform ==
    /\ \E im \in TransformImages : orig_w = im[1] /\ orig_h = im[2]
    /\ \E o \in DrawableSizes : rw = o[1] /\ rh = o[2]
    /\ pc = "loop"
    /\ crop = InitialCrop(orig_w, orig_h)
    /\ dragging = FALSE /\ resizing = FALSE
    /\ drag_offset_x = 0 /\ drag_offset_y = 0
    /\ running = TRUE
    /\ crop_changed = FALSE
    /\ preview_tex = [present |-> FALSE, src |-> NoRegion]
    /\ cnt = 1
    /\ fname = << >>
    /\ nsaves = 0
    /\ save_result = "none"
    /\ regenerated = "none"
    /\ nev = 0
    /\ held = Acquired("ok", TRUE)
    /\ misreleased = {}
    /\ exit_code = -1
    /\ fault = "ok"
    /\ probe = NoProbe

\* The display point (px, py) is mapped to image space as the pointer
\* handlers do and back to display space as the renderer does; one point is
\* probed in a run.
RoundTrip(px, py) ==
    /\ pc = "loop"
    /\ ~probe.done
    /\ LET s  == FScale(rw, rh, orig_w, orig_h)
           ox == FOffset(rw, orig_w, s)
           oy == FOffset(rh, orig_h, s)
       IN  probe' = [done |-> TRUE, px |-> px, py |-> py,
                     qx |-> ToDisplayF(ToImageF(px, ox, s), ox, s),
                     qy |-> ToDisplayF(ToImageF(py, oy, s), oy, s)]
    /\ UNCHANGED << pc, orig_w, orig_h, rw, rh, crop, dragging, resizing,
                    drag_offset_x, drag_offset_y, running, crop_changed,
                    preview_tex, cnt, fname, nsaves, save_result, regenerated,
                    nev, held, misreleased, exit_code, fault >>

\* The two axes are transformed independently of each other, so the points
\* probed are taken along the diagonal of the drawable area.
NextTransform ==
    \E k \in 0..ProbesPerAxis : RoundTrip(Coord(rw, k), Coord(rh, k))

SpecTransform == InitTransform /\ [][NextTransform]_vars

\* =================================================================== claims
Started == pc # "start" /\ fault = "ok"

InBounds(c) ==
    c.x >= 0 /\ c.y >= 0 /\ c.x + c.w <= orig_w /\ c.y + c.h <= orig_h

FrameStep == \E ok \in BOOLEAN : Frame(ok)

\* C1: once the region exists, after every key and pointer event it lies
\* inside the image: x >= 0, y >= 0, x + w <= image width, y + h <= image
\* height.
BoundsInvariant == Started => InBounds(crop)

\* C2: in the initial state and after every event the region is square,
\* w = h.
SquareInvariant == Started => crop.w = crop.h

\* C3: in every reachable state the region's width and height are both at
\* least MIN_SIZE.  Stated for images that are themselves at least MIN_SIZE
\* wide and high, where the initial region satisfies it, so that a violation
\* is the work of an event handler.
MinSizeInvariant ==
    (Started /\ orig_w >= MIN_SQUARE_SIZE /\ orig_h >= MIN_SQUARE_SIZE)
        => (crop.w >= MIN_SQUARE_SIZE /\ crop.h >= MIN_SQUARE_SIZE)

\* C4: one grow key below the size cap increases w and h by exactly 16 and
\* re-derives x and y so that the centre stays where it was; from
\* (272,172,256,256) in an 800x600 image the region becomes (264,164,272,272).
CenteredGrow ==
    [][(KeyPlus /\ crop.w < MAX_SQUARE_SIZE /\ crop.h < MAX_SQUARE_SIZE) =>
          /\ crop'.w = crop.w + GROW_STEP
          /\ crop'.h = crop.h + GROW_STEP
          /\ crop'.x + crop'.w \div 2 = crop.x + crop.w \div 2
          /\ crop'.y + crop'.h \div 2 = crop.y + crop.h \div 2
          /\ (orig_w = 800 /\ orig_h = 600 /\ crop = Region(272, 172, 256, 256)
                => crop' = Region(264, 164, 272, 272))]_vars

\* C5: for an image at least 256 wide and high the region at start-up is
\* ((W-256) div 2, (H-256) div 2, 256, 256), which is (272,172,256,256) for
\* 800x600; for a smaller image the start-up region lies inside the image.
InitialRegion ==
    pc = "loop" =>
        /\ (orig_w >= DEFAULT_SQUARE_SIZE /\ orig_h >= DEFAULT_SQUARE_SIZE) =>
               crop = Region((orig_w - 256) \div 2, (orig_h - 256) \div 2, 256, 256)
        /\ (orig_w = 800 /\ orig_h = 600) => crop = Region(272, 172, 256, 256)
        /\ InBounds(crop)

\* C5 witness: a 100x300 image, narrower than the default size, has been
\* loaded and its region clamped to the image width.
InitialRegionClamped ==
    pc = "loop" /\ orig_w = 100 /\ orig_h = 300 /\ crop = Region(0, 22, 100, 256)

\* The region after a jump by (dx, dy) as C6 describes it: the destination
\* when it lies fully within the image, otherwise the region unchanged.
JumpOrReject(dx, dy) ==
    LET dest == [crop EXCEPT !.x = crop.x + dx, !.y = crop.y + dy]
    IN  IF InBounds(dest) THEN dest ELSE crop

\* C6: Ctrl+Left/Right moves x by the current width and Ctrl+Up/Down moves
\* y by the current height exactly when the destination region lies fully
\* within the image; otherwise the region is unchanged.
CtrlJump ==
    [][/\ KeyLeft(FALSE, TRUE) => crop' = JumpOrReject(-crop.w, 0)
       /\ KeyRight(FALSE, TRUE) => crop' = JumpOrReject(crop.w, 0)
       /\ KeyUp(FALSE, TRUE) => crop' = JumpOrReject(0, -crop.h)
       /\ KeyDown(FALSE, TRUE) => crop' = JumpOrReject(0, crop.h)]_vars

\* The bottom-right corner requested by a motion at p while resizing.
RequestedCorner(p) ==
    LET i == ToImage(p)
    IN  << RoundHalf(i.xn + drag_offset_x * i.d, i.d),
           RoundHalf(i.yn + drag_offset_y * i.d, i.d) >>

ResizeStep(p) == MouseMotion(p) /\ ~dragging /\ resizing

\* C7 as claimed: a motion while Resizing keeps the top-left, makes the
\* region square, keeps the bottom-right corner inside the image and neither
\* dimension below MIN_SIZE, and takes the smaller requested extent whenever
\* that extent meets both limits.
ResizeKeepsMinSize ==
    [][\A p \in Points : ResizeStep(p) =>
          LET br  == RequestedCorner(p)
              req == Min(br[1] - crop.x, br[2] - crop.y)
          IN  /\ crop'.x = crop.x /\ crop'.y = crop.y
              /\ crop'.w = crop'.h
              /\ crop'.x + crop'.w <= orig_w /\ crop'.y + crop'.h <= orig_h
              /\ crop'.w >= MIN_SQUARE_SIZE /\ crop'.h >= MIN_SQUARE_SIZE
              /\ (/\ req >= MIN_SQUARE_SIZE
                  /\ crop.x + req <= orig_w /\ crop.y + req <= orig_h)
                    => crop'.w = req]_vars

\* C7 as amended: a motion while Resizing keeps the top-left and sets
\* w = h = min(min(max(reqW, MIN_SIZE), W - x), min(max(reqH, MIN_SIZE), H - y)):
\* each requested extent is raised to MIN_SIZE and then cut to the room left
\* up to the image edge, which wins when it is smaller than MIN_SIZE.  With
\* top-left (272,172) in 800x600 and requested corner (600,500), w = h = 328.
ResizeClampsToImage ==
    [][\A p \in Points : ResizeStep(p) =>
          LET br == RequestedCorner(p)
              ew == Min(Max(br[1] - crop.x, MIN_SQUARE_SIZE), orig_w - crop.x)
              eh == Min(Max(br[2] - crop.y, MIN_SQUARE_SIZE), orig_h - crop.y)
          IN  /\ crop'.x = crop.x /\ crop'.y = crop.y
              /\ crop'.w = crop'.h
              /\ crop'.w = Min(ew, eh)
              /\ crop'.x + crop'.w <= orig_w /\ crop'.y + crop'.h <= orig_h
              /\ (/\ orig_w = 800 /\ orig_h = 600
                  /\ crop.x = 272 /\ crop.y = 172 /\ br = << 600, 500 >>)
                    => crop'.w = 328]_vars

\* C7 witness: the handle of the initial region of the 800x600 image has
\* been dragged to image point (600,500).
ResizedTo328 ==
    /\ orig_w = 800 /\ orig_h = 600 /\ resizing /\ ~dragging
    /\ crop = Region(272, 172, 328, 328)

\* The file name the k-th export should use.
ExpectedName(k, w, h) ==
    LET three == IF k < 10 THEN << "0", "0" >> \o Digits(k)
                 ELSE IF k < 100 THEN << "0" >> \o Digits(k)
                 ELSE Digits(k)
    IN  << "crop_" >> \o three \o << "_" >> \o Digits(w) \o << "x" >>
            \o Digits(h) \o << ".png" >>

\* C8: the counter starts at 1; the k-th S key-down names its file
\* crop_{k, 3 digits}_{w}x{h}.png with the region's size at that moment and
\* increases the counter by exactly 1; no other event changes the counter.
ExportCounter ==
    [][/\ cnt = nsaves + 1 /\ cnt' = nsaves' + 1
       /\ nsaves' # nsaves =>
             /\ nsaves' = nsaves + 1
             /\ fname' = ExpectedName(nsaves + 1, crop.w, crop.h)
             /\ cnt' = cnt + 1
       /\ nsaves' = nsaves => (cnt' = cnt /\ fname' = fname)]_vars

\* C8 witness: S has been pressed twice on the initial 256x256 region and
\* the second encode failed.
SecondExport ==
    /\ nsaves = 2 /\ cnt = 3 /\ save_result = "failed"
    /\ fname = << "crop_", "0", "0", "2", "_", "2", "5", "6", "x",
                  "2", "5", "6", ".png" >>

\* C9 as claimed: a frame that finds the region equal to the one the held
\* preview was cut from keeps that preview.
CacheReuseByRegion ==
    [][(FrameStep /\ preview_tex.present /\ preview_tex.src = crop) =>
          (regenerated' = "kept" /\ preview_tex' = preview_tex)]_vars

\* C9 as amended: a frame keeps the held preview exactly when none of its
\* events set the changed flag (no key-down mutated the region and no motion
\* was handled while Dragging or Resizing); when the flag is set the preview
\* is destroyed and cut again, even if the region is back where it was.
CacheReuseByFlag ==
    [][(FrameStep /\ preview_tex.present) =>
          IF crop_changed
          THEN regenerated' = "replaced"
          ELSE regenerated' = "kept" /\ preview_tex' = preview_tex]_vars

\* C9 witness: events were handled, none set the flag, and the frame after
\* them kept the preview.
PreviewKept ==
    /\ regenerated = "kept" /\ preview_tex.present /\ preview_tex.src = crop
    /\ nev > 0 /\ pc = "loop"

\* C10: after the preview update of every frame, a held preview was cut from
\* the region as it is at that render pass.
PreviewFresh ==
    [][FrameStep => (preview_tex'.present => preview_tex'.src = crop')]_vars

\* C10 witness: the region was changed and the next frame replaced the
\* preview by one cut from the changed region.
PreviewReplaced ==
    /\ regenerated = "replaced" /\ preview_tex.present
    /\ preview_tex.src = crop /\ crop # InitialCrop(orig_w, orig_h)

\* The interaction state the two flags encode.
IState(d, r) ==
    IF d /\ r THEN "Both" ELSE IF d THEN "Dragging"
    ELSE IF r THEN "Resizing" ELSE "Idle"

\* C11: the interaction state is always exactly one of Idle, Dragging and
\* Resizing (the two flags are never both set), and every change of it is
\* Idle->Dragging, Idle->Resizing, Dragging->Idle or Resizing->Idle.
InteractionStates ==
    [][/\ ~(dragging /\ resizing)
       /\ ~(dragging' /\ resizing')
       /\ << IState(dragging, resizing), IState(dragging', resizing') >> \in
             { << "Idle", "Idle" >>, << "Dragging", "Dragging" >>,
               << "Resizing", "Resizing" >>,
               << "Idle", "Dragging" >>, << "Idle", "Resizing" >>,
               << "Dragging", "Idle" >>, << "Resizing", "Idle" >> }]_vars

\* The display point p maps to an image point inside the region (edges
\* included).
PointInside(p) ==
    LET i == ToImage(p)
    IN  /\ crop.x * i.d <= i.xn /\ i.xn <= (crop.x + crop.w) * i.d
        /\ crop.y * i.d <= i.yn /\ i.yn <= (crop.y + crop.h) * i.d

\* C12 as claimed: any pointer-button-up received while Dragging or Resizing
\* leaves the interaction state Idle.
AnyButtonUpToIdle ==
    [][((\E b \in Buttons : MouseButtonUp(b)) /\ (dragging \/ resizing)) =>
          (~dragging' /\ ~resizing')]_vars

\* C12 as amended: a button-up of the primary (left) button clears both
\* flags and leaves the region as the last motion set it; a button-up of
\* another button changes neither the flags nor the region; while both flags
\* are clear no motion changes the region, and a flag is set again only by a
\* primary button-down at a point inside the region.
PrimaryButtonUpToIdle ==
    [][/\ MouseButtonUp("left") =>
             (~dragging' /\ ~resizing' /\ crop' = crop)
       /\ MouseButtonUp("right") =>
             (dragging' = dragging /\ resizing' = resizing /\ crop' = crop)
       /\ (~dragging /\ ~resizing) =>
             /\ \A p \in Points : MouseMotion(p) => crop' = crop
             /\ (dragging' \/ resizing') =>
                   \E p \in Points :
                       MouseButtonDown("left", p) /\ PointInside(p)]_vars

\* C12 witness: the region of the 800x600 image was dragged to the
\* bottom-right corner and the button released; the region stays there.
DragCommitted ==
    /\ orig_w = 800 /\ orig_h = 600 /\ ~dragging /\ ~resizing
    /\ crop = Region(544, 344, 256, 256) /\ drag_offset_x = 40 /\ nev = 3

\* The setup failures C13 lists.
FatalFaults ==
    { "argc", "sdl_init", "img_init", "ttf_init", "window", "renderer",
      "image" }

\* C13: when the setup fails for a wrong argument count, an initialisation,
\* the window, the renderer or the image load, the program exits with a
\* non-zero status and no loop iteration has run (no event handled, no frame
\* drawn); when only the font failed to load the program has not exited
\* while the loop runs.
FatalStartupStatus ==
    /\ (pc = "done" /\ fault \in FatalFaults) =>
           (exit_code # 0 /\ nev = 0 /\ regenerated = "none")
    /\ (fault = "ok" /\ "font" \notin held /\ pc \in { "loop", "exit" }) =>
           exit_code = -1

\* C14: when the program has exited, on whatever path, it holds no resource
\* it acquired (the preview texture included) and has released nothing it
\* did not hold.
AllReleased ==
    pc = "done" =>
        (held = {} /\ ~preview_tex.present /\ misreleased = {})

\* C15: handling an S key-down leaves the region, the two interaction flags,
\* the anchor offset, the preview texture and the changed flag as they were,
\* and the loop goes on: running is not cleared and control stays in the loop.
ExportIsPassive ==
    [][(\E o \in SaveOutcomes : KeySave(o)) =>
          /\ crop' = crop
          /\ dragging' = dragging /\ resizing' = resizing
          /\ drag_offset_x' = drag_offset_x /\ drag_offset_y' = drag_offset_y
          /\ preview_tex' = preview_tex /\ crop_changed' = crop_changed
          /\ running' = running /\ pc' = "loop"]_vars

\* C15 witness: an export was made in the middle of a drag, after a frame
\* had cut the preview, and the loop is still running.
ExportedWhileDragging ==
    /\ nsaves = 1 /\ save_result = "saved" /\ dragging /\ ~resizing
    /\ drag_offset_x = 40 /\ preview_tex.present /\ ~crop_changed
    /\ running /\ pc = "loop"

\* C16: a display point inside the drawable area, mapped to image space by
\* the pointer transform and back by the render transform, comes back within
\* one pixel on each axis, for every image and output size.
RoundTripWithinOnePixel ==
    probe.done =>
        (Abs(probe.qx - probe.px) <= 1 /\ Abs(probe.qy - probe.py) <= 1)

\* C16 witness: a point went through both transforms and came back one
\* pixel off on the x axis and exact on the y axis.
RoundTripRounded ==
    /\ probe.done
    /\ probe.px # probe.qx /\ probe.py = probe.qy

\* C17: a key-down of + never produces a width or height above the maximum
\* size 2048, and when growing by 16 would exceed 2048 the region is left
\* unchanged.
GrowCapped ==
    [][KeyPlus =>
          /\ crop'.w <= MAX_SQUARE_SIZE /\ crop'.h <= MAX_SQUARE_SIZE
          /\ (crop.w + GROW_STEP > MAX_SQUARE_SIZE
                \/ crop.h + GROW_STEP > MAX_SQUARE_SIZE) => crop' = crop]_vars

\* The top-left a drag motion to display point p asks for: the image point
\* minus the anchor offset, rounded to the nearest integer.
DragTarget(p) ==
    LET i == ToImage(p)
    IN  [x |-> RoundHalf(i.xn - drag_offset_x * i.d, i.d),
         y |-> RoundHalf(i.yn - drag_offset_y * i.d, i.d)]

\* C18: a pointer motion handled in the Dragging state leaves w and h
\* unchanged and sets the top-left to the motion point minus the anchor,
\* clamped so that afterwards 0 <= x, 0 <= y, x + w <= image width and
\* y + h <= image height.
DragStep(p) ==
    (MouseMotion(p) /\ dragging /\ ~resizing) =>
        /\ crop'.w = crop.w /\ crop'.h = crop.h
        /\ crop'.x = Max(0, Min(DragTarget(p).x, orig_w - crop.w))
        /\ crop'.y = Max(0, Min(DragTarget(p).y, orig_h - crop.h))
        /\ InBounds(crop')

DragClampsToImage == [][\A p \in Points : DragStep(p)]_vars

\* The step of a Shift+arrow key-down: the region becomes c1 unless reject
\* holds, and then it is unchanged; from a region inside the image the key
\* is accepted whenever reject does not hold.
ShiftResize(reject, c1) ==
    /\ reject => crop' = crop
    /\ crop' = crop \/ crop' = c1
    /\ (InBounds(crop) /\ ~reject) => crop' = c1

NearCorner(p) ==
    LET i == ToImage(p)
    IN  /\ Abs(i.xn - (crop.x + crop.w) * i.d) < HANDLE_GRAB * i.d
        /\ Abs(i.yn - (crop.y + crop.h) * i.d) < HANDLE_GRAB * i.d

\* The step of a left button-down at p handled in Idle, as C20 states it; the
\* anchor is compared as a fraction over the denominator of the image point.
HitTestStep(p) ==
    LET i == ToImage(p)
    IN  (MouseButtonDown("left", p) /\ ~dragging /\ ~resizing) =>
            /\ crop' = crop
            /\ ~PointInside(p) =>
                   /\ ~dragging' /\ ~resizing'
                   /\ drag_offset_x' = drag_offset_x
                   /\ drag_offset_y' = drag_offset_y
            /\ (PointInside(p) /\ NearCorner(p)) =>
                   /\ resizing' /\ ~dragging'
                   /\ drag_offset_x' * i.d = (crop.x + crop.w) * i.d - i.xn
                   /\ drag_offset_y' * i.d = (crop.y + crop.h) * i.d - i.yn
            /\ (PointInside(p) /\ ~NearCorner(p)) =>
                   /\ dragging' /\ ~resizing'
                   /\ drag_offset_x' * i.d = i.xn - crop.x * i.d
                   /\ drag_offset_y' * i.d = i.yn - crop.y * i.d

\* C20: a primary button-down in Idle outside the region changes neither the
\* state, the anchor nor the region; inside and less than 24 image units from
\* the bottom-right corner on both axes it starts Resizing with anchor =
\* corner minus click point; elsewhere inside it starts Dragging with anchor =
\* click point minus top-left; a button-down of another button never changes
\* the state.
HitTest ==
    [][\A p \in Points :
          /\ HitTestStep(p)
          /\ MouseButtonDown("right", p) =>
                (dragging' = dragging /\ resizing' = resizing)]_vars

\* C21: for an image of at least 1x1, once the region exists it always has
\* w >= 1 and h >= 1, so the guards on a non-positive size are never taken:
\* no S key-down returns early without a save attempt, and a frame that has
\* to cut the preview again (region changed, or none held) holds a preview
\* of the region afterwards whenever the surface and texture can be created.
PositiveSize ==
    [][/\ Started' => (crop'.w >= 1 /\ crop'.h >= 1 /\ save_result' # "skipped")
       /\ (Frame(TRUE) /\ (crop_changed \/ ~preview_tex.present)) =>
              (preview_tex'.present /\ preview_tex'.src = crop)]_vars

\* C21 witness: on the single-pixel image the region is 1x1, an S key-down
\* saved it and a frame cut its preview.
SinglePixelExported ==
    /\ orig_w = 1 /\ orig_h = 1 /\ crop = Region(0, 0, 1, 1)
    /\ save_result = "saved" /\ preview_tex.present
    /\ preview_tex.src = crop

====
